---- MODULE Spec2Model ----
(***************************************************************************)
(* A model of k8s-port-forward-script.js: the interactive configuration    *)
(* flow of main(), the tunnel children it supervises and the graceful      *)
(* shutdown installed by attachGracefulShutdown.                           *)
(*                                                                         *)
(* Text is modelled character by character: a string is a sequence of      *)
(* one-character strings, so that trimming, splitting, parsing and         *)
(* formatting are computed the way the script computes them.               *)
(***************************************************************************)
EXTENDS Integers, Sequences, FiniteSets, TLC

(***************************************************************************)
(* Characters and strings                                                  *)
(***************************************************************************)
Digits == {"0", "1", "2", "3", "4", "5", "6", "7", "8", "9"}

DigitVal(ch) ==
    CASE ch = "0" -> 0 [] ch = "1" -> 1 [] ch = "2" -> 2 [] ch = "3" -> 3
      [] ch = "4" -> 4 [] ch = "5" -> 5 [] ch = "6" -> 6 [] ch = "7" -> 7
      [] ch = "8" -> 8 [] ch = "9" -> 9

DigitChar(d) ==
    CASE d = 0 -> "0" [] d = 1 -> "1" [] d = 2 -> "2" [] d = 3 -> "3"
      [] d = 4 -> "4" [] d = 5 -> "5" [] d = 6 -> "6" [] d = 7 -> "7"
      [] d = 8 -> "8" [] d = 9 -> "9"

\* White space as String.prototype.trim and the regular expression \s see it.
IsSpace(ch) == ch \in {" ", "\n", "\r", "\t"}

\* A JavaScript number that may be NaN.
NaN == [nan |-> TRUE, val |-> 0]
Num(v) == [nan |-> FALSE, val |-> v]

\* s without its leading white space.
TrimLeft(s) ==
    LET keep == {i \in 1..Len(s) : ~IsSpace(s[i])}
    IN  IF keep = {} THEN <<>>
        ELSE SubSeq(s, CHOOSE i \in keep : \A j \in keep : i <= j, Len(s))

\* s without its trailing white space.
TrimRight(s) ==
    LET keep == {i \in 1..Len(s) : ~IsSpace(s[i])}
    IN  IF keep = {} THEN <<>>
        ELSE SubSeq(s, 1, CHOOSE i \in keep : \A j \in keep : i >= j)

\* String.prototype.trim
Trim(s) == TrimRight(TrimLeft(s))

\* The k-th smallest element of a set of integers.
Nth(S, k) == CHOOSE x \in S : Cardinality({y \in S : y < x}) = k - 1

\* String.prototype.split(sep) for a one-character separator: the pieces
\* between separators, empty pieces included; "" splits into [""].
Split(s, sep) ==
    LET at    == {i \in 1..Len(s) : s[i] = sep}
        n     == Cardinality(at)
        from(k) == IF k = 1 THEN 1 ELSE Nth(at, k - 1) + 1
        to(k)   == IF k = n + 1 THEN Len(s) ELSE Nth(at, k) - 1
    IN  [k \in 1..(n + 1) |-> SubSeq(s, from(k), to(k))]

\* String.prototype.split(/\s+/): a run of white space is one separator.
SplitWs(s) ==
    LET first == {i \in 1..Len(s) : IsSpace(s[i]) /\ (i = 1 \/ ~IsSpace(s[i - 1]))}
        last  == {i \in 1..Len(s) : IsSpace(s[i]) /\ (i = Len(s) \/ ~IsSpace(s[i + 1]))}
        n     == Cardinality(first)
        from(k) == IF k = 1 THEN 1 ELSE Nth(last, k - 1) + 1
        to(k)   == IF k = n + 1 THEN Len(s) ELSE Nth(first, k) - 1
    IN  [k \in 1..(n + 1) |-> SubSeq(s, from(k), to(k))]

\* Array.prototype.join(sep) on strings.
RECURSIVE Join(_, _)
Join(parts, sep) ==
    IF parts = <<>> THEN <<>>
    ELSE IF Len(parts) = 1 THEN parts[1]
         ELSE parts[1] \o sep \o Join(Tail(parts), sep)

\* String.prototype.startsWith
StartsWith(s, p) == Len(s) >= Len(p) /\ SubSeq(s, 1, Len(p)) = p

\* The value of a string of decimal digits (0 for the empty string).
RECURSIVE DecimalValue(_)
DecimalValue(s) ==
    IF s = <<>> THEN 0
    ELSE 10 * DecimalValue(SubSeq(s, 1, Len(s) - 1)) + DigitVal(s[Len(s)])

\* String(n) for an integer n >= 0.
RECURSIVE ToStr(_)
ToStr(n) ==
    IF n < 10 THEN <<DigitChar(n)>>
    ELSE Append(ToStr(n \div 10), DigitChar(n % 10))

\* Number(value) on the strings the model feeds it: white space is trimmed,
\* the empty string is 0, a string of decimal digits is its value (leading
\* zeros allowed), anything else over the model's alphabet is NaN.
Number(value) ==
    LET t == Trim(value)
    IN  IF \A i \in 1..Len(t) : t[i] \in Digits
        THEN Num(DecimalValue(t))
        ELSE NaN

\* The longest prefix of decimal digits of s.
RECURSIVE DigitPrefix(_)
DigitPrefix(s) ==
    IF s # <<>> /\ Head(s) \in Digits
    THEN <<Head(s)>> \o DigitPrefix(Tail(s))
    ELSE <<>>

\* Number.parseInt(s, 10) / parseInt(s): leading white space skipped, an
\* optional sign, then the longest run of digits; what follows is ignored;
\* no digit at all gives NaN.
ParseInt(s) ==
    LET t    == TrimLeft(s)
        neg  == t # <<>> /\ Head(t) = "-"
        body == IF t # <<>> /\ Head(t) \in {"-", "+"} THEN Tail(t) ELSE t
        ds   == DigitPrefix(body)
    IN  IF ds = <<>> THEN NaN
        ELSE Num(IF neg THEN 0 - DecimalValue(ds) ELSE DecimalValue(ds))

(***************************************************************************)
(* Port Allocator and Selection Resolver (pure helpers of the script)      *)
(***************************************************************************)
MaxPort == 65535

isValidPort(value) ==
    LET n == Number(value)
    IN  ~n.nan /\ n.val > 0 /\ n.val <= MaxPort

RECURSIVE nextAvailablePort(_, _)
nextAvailablePort(startPort, reservedPorts) ==
    IF ToStr(startPort) \in reservedPorts
    THEN nextAvailablePort(startPort + 1, reservedPorts)
    ELSE ToStr(startPort)

\* Array.prototype.filter(Boolean) on strings drops the empty ones.
RECURSIVE FilterNonEmpty(_)
FilterNonEmpty(parts) ==
    IF parts = <<>> THEN <<>>
    ELSE IF Head(parts) = <<>> THEN FilterNonEmpty(Tail(parts))
         ELSE <<Head(parts)>> \o FilterNonEmpty(Tail(parts))

\* Array.from(set).sort((x, y) => x - y)
RECURSIVE SortedSeq(_)
SortedSeq(S) ==
    IF S = {} THEN <<>>
    ELSE LET m == CHOOSE x \in S : \A y \in S : x <= y
         IN  <<m>> \o SortedSeq(S \ {m})

\* One token of parseMultiSelect: accepted (with its number) or rejected.
TokenRejected(part, max) ==
    LET n == ParseInt(part)
    IN  n.nan \/ n.val < 1 \/ n.val > max

\* A result of parseMultiSelect: null, or an array of indices.
Null == [valid |-> FALSE, sel |-> <<>>]
Selection(sel) == [valid |-> TRUE, sel |-> sel]

parseMultiSelect(input, max) ==
    LET raw   == Trim(input)
        split == Split(raw, ",")
        parts == FilterNonEmpty([i \in 1..Len(split) |-> Trim(split[i])])
    IN  IF raw = <<>> THEN Selection(<<>>)
        ELSE IF \E i \in 1..Len(parts) : TokenRejected(parts[i], max)
             THEN Null
             ELSE Selection(SortedSeq({ParseInt(parts[i]).val : i \in 1..Len(parts)}))

(***************************************************************************)
(* Catalog Parser: parseServicesMap                                        *)
(***************************************************************************)
\* An optional value: None models null / undefined, Some(x) a value.
None == <<>>
Some(x) == <<x>>

NAMESPACE == <<"N", "A", "M", "E", "S", "P", "A", "C", "E">>
NAME == <<"N", "A", "M", "E">>
STATUS == <<"S", "T", "A", "T", "U", "S">>
Running == <<"R", "u", "n", "n", "i", "n", "g">>
Pending == <<"P", "e", "n", "d", "i", "n", "g">>
DEFAULT == <<"d", "e", "f", "a", "u", "l", "t">>

envPrefixes == << <<"d", "e", "v">>, <<"q", "a">>, <<"s", "t", "g">>, <<"p", "r", "o", "d">> >>

\* Array.prototype.indexOf, 1-based; 0 when absent (-1 in the script).
IndexOf(arr, x) ==
    IF \E i \in 1..Len(arr) : arr[i] = x
    THEN CHOOSE i \in 1..Len(arr) : arr[i] = x /\ \A j \in 1..(i - 1) : arr[j] # x
    ELSE 0

\* arr[i] of the script, undefined (None) when i is outside the array.
At(arr, i) == IF i \in 1..Len(arr) THEN Some(arr[i]) ELSE None

\* envPrefixes.find((env) => nameColumn.startsWith(`${env}-`)) ?? "default"
envPrefixOf(nameColumn) ==
    LET hits == {i \in 1..Len(envPrefixes) : StartsWith(nameColumn, envPrefixes[i] \o <<"-">>)}
    IN  IF hits = {} THEN DEFAULT
        ELSE envPrefixes[CHOOSE i \in hits : \A j \in hits : i <= j]

\* s.replace(new RegExp(`^${p}-`), ""): one leading "<p>-" removed.
StripPrefix(s, p) ==
    IF StartsWith(s, p \o <<"-">>) THEN SubSeq(s, Len(p) + 2, Len(s)) ELSE s

\* The environment prefix left on the name.
StripEnvPrefixKept(s) == s

\* serviceName.replace(/^(dev|qa|stg|prod)-/, "")
StripEnvPrefix(s) ==
    LET hits == {i \in 1..Len(envPrefixes) : StartsWith(s, envPrefixes[i] \o <<"-">>)}
    IN  IF hits = {} THEN s
        ELSE StripPrefix(s, envPrefixes[CHOOSE i \in hits : \A j \in hits : i <= j])

\* obj[env] = details on a plain object: an existing property keeps its
\* place in the key order, a new one goes last.
SetEnv(envs, env, details) ==
    LET e == [env |-> env, id |-> details.id, namespace |-> details.namespace,
              serviceName |-> details.serviceName]
    IN  IF \E i \in 1..Len(envs) : envs[i].env = env
        THEN [i \in 1..Len(envs) |-> IF envs[i].env = env THEN e ELSE envs[i]]
        ELSE Append(envs, e)

\* servicesMap.has / set / get(...)[envPrefix] = {...}
Upsert(map, key, env, details) ==
    IF \E i \in 1..Len(map) : map[i].key = key
    THEN [i \in 1..Len(map) |->
            IF map[i].key = key
            THEN [key |-> key, envs |-> SetEnv(map[i].envs, env, details)]
            ELSE map[i]]
    ELSE Append(map, [key |-> key, envs |-> SetEnv(<<>>, env, details)])

\* parseRow without the STATUS filter.
parseRowAnyStatus(acc, line, namespace, namespaceIndex, nameIndex, statusIndex) ==
    LET columns         == SplitWs(line)
        namespaceColumn == IF namespace # None THEN namespace ELSE At(columns, namespaceIndex)
        nameColumn      == At(columns, nameIndex)
    IN  IF nameColumn = None THEN [acc EXCEPT !.threw = TRUE]
        ELSE LET name        == nameColumn[1]
                 parts       == Split(name, "-")
                 n           == Len(parts)
                 serviceName == Join(SubSeq(parts, 1, n - 2), <<"-">>)
                 serviceId   == Join(SubSeq(parts, n - 1, n), <<"-">>)
                 stripped    == StripEnvPrefix(serviceName)
                 short       == IF namespaceColumn # None /\ namespaceColumn[1] # <<>>
                                THEN StripPrefix(stripped, namespaceColumn[1])
                                ELSE stripped
             IN  IF n > 2
                 THEN [acc EXCEPT !.map = Upsert(acc.map, short, envPrefixOf(name),
                          [id |-> serviceId, namespace |-> namespaceColumn,
                           serviceName |-> serviceName])]
                 ELSE acc

\* The catalog after one data row; threw models the TypeError of
\* nameColumn.startsWith on an undefined name column.
parseRow(acc, line, namespace, namespaceIndex, nameIndex, statusIndex) ==
    LET columns         == SplitWs(line)
        statusColumn    == IF statusIndex # 0 THEN At(columns, statusIndex) ELSE None
        namespaceColumn == IF namespace # None THEN namespace ELSE At(columns, namespaceIndex)
        nameColumn      == At(columns, nameIndex)
    IN  IF statusColumn # None /\ statusColumn # Some(Running) THEN acc
        ELSE IF nameColumn = None THEN [acc EXCEPT !.threw = TRUE]
        ELSE LET name        == nameColumn[1]
                 parts       == Split(name, "-")
                 n           == Len(parts)
                 serviceName == Join(SubSeq(parts, 1, n - 2), <<"-">>)
                 serviceId   == Join(SubSeq(parts, n - 1, n), <<"-">>)
                 stripped    == StripEnvPrefix(serviceName)
                 short       == IF namespaceColumn # None /\ namespaceColumn[1] # <<>>
                                THEN StripPrefix(stripped, namespaceColumn[1])
                                ELSE stripped
             IN  IF n > 2
                 THEN [acc EXCEPT !.map = Upsert(acc.map, short, envPrefixOf(name),
                          [id |-> serviceId, namespace |-> namespaceColumn,
                           serviceName |-> serviceName])]
                 ELSE acc

RECURSIVE parseRows(_, _, _, _, _, _, _)
parseRows(acc, lines, i, namespace, namespaceIndex, nameIndex, statusIndex) ==
    IF i > Len(lines) \/ acc.threw THEN acc
    ELSE parseRows(parseRow(acc, lines[i], namespace, namespaceIndex, nameIndex, statusIndex),
                   lines, i + 1, namespace, namespaceIndex, nameIndex, statusIndex)

parseServicesMap(podsData, namespace) ==
    LET lines   == Split(Trim(podsData), "\n")
        headers == SplitWs(lines[1])
    IN  parseRows([threw |-> FALSE, map |-> <<>>], lines, 2, namespace,
                  IndexOf(headers, NAMESPACE), IndexOf(headers, NAME),
                  IndexOf(headers, STATUS))

\* Character codes, for the default (code unit) order of Array.prototype.sort.
CharOrder == <<"\t", "\n", "\r", " ", "+", ",", "-", "0", "1", "2", "3", "4", "5", "6", "7",
               "8", "9", "A", "C", "E", "M", "N", "P", "R", "S", "T", "U", "a", "b", "c",
               "d", "e", "f", "g", "h", "i", "k", "l", "m", "n", "o", "p", "q", "r", "s", "t", "u", "v",
               "x", "y", "z">>

CharCode(ch) == CHOOSE i \in 1..Len(CharOrder) : CharOrder[i] = ch

RECURSIVE StrLess(_, _)
StrLess(a, b) ==
    IF b = <<>> THEN FALSE
    ELSE IF a = <<>> THEN TRUE
    ELSE IF Head(a) = Head(b) THEN StrLess(Tail(a), Tail(b))
    ELSE CharCode(Head(a)) < CharCode(Head(b))

\* Array.from(servicesMap.keys()).sort()
RECURSIVE SortedKeys(_)
SortedKeys(S) ==
    IF S = {} THEN <<>>
    ELSE LET m == CHOOSE x \in S : \A y \in S \ {x} : StrLess(x, y)
         IN  <<m>> \o SortedKeys(S \ {m})

MapKeys(map) == {map[i].key : i \in 1..Len(map)}

\* servicesMap.get(key) || {} as the ordered list of its environments.
EnvsOf(map, key) ==
    IF \E i \in 1..Len(map) : map[i].key = key
    THEN map[CHOOSE i \in 1..Len(map) : map[i].key = key].envs
    ELSE <<>>

(***************************************************************************)
(* State                                                                   *)
(***************************************************************************)
VARIABLES
    platform,           \* process.platform
    exitStatus,         \* "none" while the script runs, then how it ended
    pc,                 \* where main() is suspended
    spinner,            \* the spinner's interval is set
    rlClosed,           \* rl.close() was called
    namespace,          \* main's namespace: None (null / undefined) or Some(name)
    namespaces,         \* the array returned by getNamespaces
    podsData,           \* the listing getPods resolved with
    servicesMap,        \* the catalog built by parseServicesMap
    servicesList,       \* its sorted keys
    selectedNumbers,    \* what parseMultiSelect returned for the service prompt
    selectedServices,   \* the services picked at the service prompt
    svcIdx,             \* the iteration of the configuration loop
    cur,                \* the locals of the current iteration
    reservedLocalPorts, \* the Set of local port strings already taken
    selectedConfigs,    \* the finalized session configurations
    prompted,           \* the prompt answered last
    answer,             \* its (trimmed) answer
    notices,            \* the messages main() has printed
    viewers,            \* the log windows being opened by openLogsInTerminal
    inlineLogs,         \* the inline "kubectl logs" processes started as fallback
    processes,          \* portForwardProcesses: the tracked tunnel children
    handlers,           \* the signals that still have a process.once listener
    isShuttingDown,     \* the flag of attachGracefulShutdown
    timers,             \* the armed timers of the shutdown path
    now,                \* milliseconds of timer time elapsed
    out,                \* the lines written to the terminal by the supervisor
    calls,              \* the calls the shutdown path has made, in order
    pendingErrors,      \* 'error' events queued for emitters without a listener
    events,             \* the number of child output chunks delivered
    delivered           \* the data events of the children, in the order delivered

vars == <<platform, exitStatus, pc, spinner, rlClosed, namespace, namespaces, podsData, servicesMap,
          servicesList, selectedNumbers, selectedServices, svcIdx, cur, reservedLocalPorts, selectedConfigs,
          prompted, answer, notices, viewers, inlineLogs, processes, handlers,
          isShuttingDown, timers, now, out, calls, pendingErrors, events, delivered>>

cfgVars == <<namespaces, podsData, servicesMap, servicesList, selectedNumbers, selectedServices, svcIdx, cur,
             reservedLocalPorts, selectedConfigs>>

runVars == <<viewers, inlineLogs, processes, handlers, isShuttingDown, timers, now, out,
             calls, pendingErrors, events, delivered>>

EmptyCur == [service |-> <<>>, availableEnvs |-> <<>>, environment |-> <<>>,
             details |-> None, suggestedLocalPort |-> <<>>, localPort |-> <<>>,
             servicePortDetected |-> <<>>, servicePortAnswer |-> <<>>]

\* The script runs and no uncaught 'error' event is about to end it.
Alive == exitStatus = "none" /\ pendingErrors = {}

Platforms == {"win32", "darwin", "linux"}

\* The values of the --namespace flag the model starts with.
ns1 == <<"n">>

(***************************************************************************)
(* What the cluster CLI may answer                                         *)
(***************************************************************************)
Row(cols) == Join(cols, <<" ">>)
Text(rows) == Join(rows, <<"\n">>) \o <<"\n">>

podA1 == <<"d", "e", "v", "-", "a", "-", "x", "-", "1">>
podA2 == <<"q", "a", "-", "a", "-", "x", "-", "2">>
podB  == <<"n", "-", "b", "-", "y", "-", "1">>
podC  == <<"c", "-", "z", "-", "1">>
podShort == <<"d", "-", "1">>

\* "kubectl get pods --all-namespaces": a NAMESPACE column.
ListingAll ==
    Text(<< Row(<<NAMESPACE, NAME, STATUS>>),
            Row(<<ns1, podA1, Running>>),
            Row(<<ns1, podA2, Running>>),
            Row(<<ns1, podB, Running>>),
            Row(<<ns1, podC, Pending>>),
            Row(<<ns1, podShort, Running>>) >>)

\* "kubectl get pods --namespace n": no NAMESPACE column.
ListingNs ==
    Text(<< Row(<<NAME, STATUS>>),
            Row(<<podA1, Running>>),
            Row(<<podA2, Running>>),
            Row(<<podB, Running>>),
            Row(<<podC, Pending>>),
            Row(<<podShort, Running>>) >>)

\* A listing with one service and one with none that qualifies.
ListingOne == Text(<< Row(<<NAME, STATUS>>), Row(<<podB, Running>>) >>)
ListingNone == Text(<< Row(<<NAME, STATUS>>), Row(<<podC, Pending>>) >>)

\* A listing whose second row is short of the NAME column.
ListingBroken == Text(<< Row(<<NAMESPACE, NAME, STATUS>>), Row(<<ns1>>) >>)

(***************************************************************************)
(* main(): the interactive configuration                                   *)
(***************************************************************************)
\* EndRun without the rl.close(): the input source stays open.
EndRunKeepsInput(tag) ==
    /\ notices' = notices \cup {tag}
    /\ rlClosed' = rlClosed
    /\ pc' = "done"
    /\ spinner' = FALSE

\* A return of main() before anything is spawned: the message is printed
\* and the input source closed.
EndRun(tag) ==
    /\ notices' = notices \cup {tag}
    /\ rlClosed' = TRUE
    /\ pc' = "done"
    /\ spinner' = FALSE

\* getPods(namespace): the command is printed, the spinner started and the
\* listing awaited.
CallGetPods ==
    /\ pc' = "awaitPods"
    /\ spinner' = TRUE

\* main() up to its first await.
Start ==
    /\ Alive /\ pc = "start"
    /\ IF namespace = None
       THEN pc' = "awaitNamespaces" /\ spinner' = TRUE
       ELSE CallGetPods
    /\ UNCHANGED <<platform, exitStatus, rlClosed, namespace, prompted, answer, notices>>
    /\ UNCHANGED cfgVars /\ UNCHANGED runVars

\* getNamespaces resolves with the command's standard output.
NamespacesLoaded(nsOutput) ==
    /\ Alive /\ pc = "awaitNamespaces"
    /\ namespaces' = SplitWs(Trim(nsOutput))
    /\ IF Len(namespaces') = 0
       THEN EndRun("No namespaces found.")
       ELSE /\ pc' = "promptNamespace"
            /\ spinner' = FALSE
            /\ UNCHANGED <<rlClosed, notices>>
    /\ UNCHANGED <<platform, exitStatus, namespace, prompted, answer, podsData, servicesMap,
                   servicesList, selectedNumbers, selectedServices, svcIdx, cur,
                   reservedLocalPorts, selectedConfigs>>
    /\ UNCHANGED runVars

\* execPromise rejects inside getNamespaces or getPods: the catch of main().
CommandFailed ==
    /\ Alive /\ pc \in {"awaitNamespaces", "awaitPods"}
    /\ EndRun("error.message")
    /\ UNCHANGED <<platform, exitStatus, namespace, prompted, answer>>
    /\ UNCHANGED cfgVars /\ UNCHANGED runVars

\* parseInt(nsAnswer) without the "|| 0": NaN is no valid index.
nsIndexStrict(nsAnswer) ==
    LET n == ParseInt(nsAnswer) IN IF n.nan THEN 0 - 1 ELSE n.val

\* parseInt(nsAnswer) || 0

nsIndexOf(nsAnswer) ==
    LET n == ParseInt(nsAnswer) IN IF n.nan \/ n.val = 0 THEN 0 ELSE n.val

\* The namespace prompt is answered.
NamespaceAnswered(nsAnswer) ==
    /\ Alive /\ pc = "promptNamespace"
    /\ prompted' = "namespace" /\ answer' = nsAnswer
    /\ LET nsIndex == nsIndexOf(nsAnswer)
       IN  IF nsIndex < 0 \/ nsIndex > Len(namespaces)
           THEN /\ EndRun("Invalid selection.")
                /\ UNCHANGED namespace
           ELSE /\ namespace' = IF nsIndex > 0 THEN Some(namespaces[nsIndex]) ELSE None
                /\ CallGetPods
                /\ UNCHANGED <<rlClosed, notices>>
    /\ UNCHANGED <<platform, exitStatus>>
    /\ UNCHANGED cfgVars /\ UNCHANGED runVars

\* The iteration of the configuration loop for service k begins: the first
\* k at or after the given one whose service has environments (the others
\* are skipped with a message).
RECURSIVE SkipEmpty(_, _, _)
SkipEmpty(map, sel, k) ==
    IF k <= Len(sel) /\ EnvsOf(map, sel[k]) = <<>>
    THEN SkipEmpty(map, sel, k + 1)
    ELSE k

envLabelOf(environment) ==
    IF environment # DEFAULT THEN environment \o <<"~">> ELSE <<>>

\* The first launch attempt of openLogsInTerminal on this platform.
FirstViewerStage ==
    CASE platform = "win32" -> "start"
      [] platform = "darwin" -> "osascript"
      [] OTHER -> "gnome-terminal"

RECURSIVE LaunchViewers(_, _)
LaunchViewers(cfgs, i) ==
    IF i > Len(cfgs) THEN <<>>
    ELSE (IF cfgs[i].showLogs
          THEN <<[cfg |-> i, stage |-> FirstViewerStage, errored |-> FALSE,
                  failed |-> FALSE, inline |-> 0]>>
          ELSE <<>>) \o LaunchViewers(cfgs, i + 1)

\* The arguments with the two ports the other way round.
portForwardArgsSwapped(cfg) ==
    << <<"port-forward">>, <<"--namespace">>, cfg.serviceNamespace,
       cfg.serviceName \o <<"-">> \o cfg.serviceId,
       cfg.servicePort \o <<":">> \o cfg.localPort >>

\* portForwardArgs of the spawn loop; the namespace is the configuration's
\* serviceNamespace, Some(name) or None (undefined).
portForwardArgs(cfg) ==
    << <<"port-forward">>, <<"--namespace">>, cfg.serviceNamespace,
       cfg.serviceName \o <<"-">> \o cfg.serviceId,
       cfg.localPort \o <<":">> \o cfg.servicePort >>

\* spawn("kubectl", portForwardArgs): a child with a pid, or one without
\* (the command cannot be run) whose 'error' event is queued.
SpawnedChild(cfgs, i, ok) ==
    [cfg |-> i, args |-> portForwardArgs(cfgs[i]), pid |-> ok,
     state |-> IF ok THEN "running" ELSE "failed",
     printedAvailable |-> FALSE, signals |-> <<>>]

\* The rest of main() once the configuration loop is over: the log windows,
\* attachGracefulShutdown, the spawn loop and rl.close().
Finish(cfgs, nts) ==
    /\ selectedConfigs' = cfgs
    /\ svcIdx' = 0
    /\ cur' = EmptyCur
    /\ rlClosed' = TRUE
    /\ pc' = "done"
    /\ IF cfgs = <<>>
       THEN /\ notices' = nts \cup {"No services selected/configured."}
            /\ UNCHANGED <<viewers, processes, handlers, pendingErrors>>
       ELSE /\ notices' = nts
            /\ viewers' = LaunchViewers(cfgs, 1)
            /\ handlers' = {"SIGINT", "SIGTERM"}
            /\ \E ok \in [1..Len(cfgs) -> BOOLEAN] :
                 /\ processes' = [i \in 1..Len(cfgs) |-> SpawnedChild(cfgs, i, ok[i])]
                 /\ pendingErrors' = {[kind |-> "tunnel", idx |-> i] : i \in {j \in 1..Len(cfgs) : ~ok[j]}}
    /\ UNCHANGED <<inlineLogs, isShuttingDown, timers, now, out, calls, events, delivered>>

\* The configuration loop from iteration k on, with the configurations
\* finalized so far: it suspends at the next environment prompt, or main()
\* runs to its end.
ContinueLoop(map, sel, k, cfgs, nts) ==
    LET k2  == SkipEmpty(map, sel, k)
        nt2 == IF k2 > k THEN nts \cup {"No environments found."} ELSE nts
    IN  IF k2 <= Len(sel)
        THEN /\ pc' = "promptEnv"
             /\ svcIdx' = k2
             /\ cur' = [EmptyCur EXCEPT !.service = sel[k2],
                                        !.availableEnvs = EnvsOf(map, sel[k2])]
             /\ selectedConfigs' = cfgs
             /\ notices' = nt2
             /\ UNCHANGED rlClosed
             /\ UNCHANGED runVars
        ELSE Finish(cfgs, nt2)

\* getPods resolves with the listing: the catalog is built and listed.
PodsLoaded(stdout) ==
    /\ Alive /\ pc = "awaitPods"
    /\ podsData' = stdout
    /\ LET parsed == parseServicesMap(stdout, namespace)
       IN  IF parsed.threw
           THEN /\ EndRun("error.message")
                /\ UNCHANGED <<servicesMap, servicesList>>
           ELSE /\ servicesMap' = parsed.map
                /\ servicesList' = SortedKeys(MapKeys(parsed.map))
                /\ IF Len(servicesList') = 0
                   THEN EndRun("No services found.")
                   ELSE /\ pc' = "promptServices"
                        /\ spinner' = FALSE
                        /\ UNCHANGED <<rlClosed, notices>>
    /\ UNCHANGED <<platform, exitStatus, namespace, prompted, answer, namespaces,
                   selectedNumbers, selectedServices, svcIdx, cur, reservedLocalPorts,
                   selectedConfigs>>
    /\ UNCHANGED runVars

\* The service prompt is answered.
ServicesAnswered(serviceAnswer) ==
    /\ Alive /\ pc = "promptServices"
    /\ prompted' = "services" /\ answer' = serviceAnswer
    /\ selectedNumbers' = parseMultiSelect(serviceAnswer, Len(servicesList))
    /\ IF ~selectedNumbers'.valid \/ Len(selectedNumbers'.sel) = 0
       THEN /\ EndRun("Invalid selection.")
            /\ UNCHANGED <<selectedServices, svcIdx, cur, selectedConfigs>>
            /\ UNCHANGED runVars
       ELSE /\ selectedServices' = [i \in 1..Len(selectedNumbers'.sel) |->
                                       servicesList[selectedNumbers'.sel[i]]]
            /\ ContinueLoop(servicesMap, selectedServices', 1, <<>>, notices)
            /\ UNCHANGED spinner
    /\ UNCHANGED <<platform, exitStatus, namespace, namespaces, podsData, servicesMap, servicesList,
                   reservedLocalPorts>>

\* Number.parseInt(envAnswer, 10) || 1
envChoiceOf(envAnswer) ==
    LET n == ParseInt(envAnswer) IN IF n.nan \/ n.val = 0 THEN 1 ELSE n.val

\* The first local port offered: 3000.
StartPort == 3000

\* The environment prompt of the current service is answered.
EnvAnswered(envAnswer) ==
    /\ Alive /\ pc = "promptEnv"
    /\ prompted' = "environment" /\ answer' = envAnswer
    /\ LET envChoice == envChoiceOf(envAnswer)
       IN  IF envChoice < 1 \/ envChoice > Len(cur.availableEnvs)
           THEN ContinueLoop(servicesMap, selectedServices, svcIdx + 1, selectedConfigs,
                             notices \cup {"Invalid environment selection."})
           ELSE /\ cur' = [cur EXCEPT
                             !.environment = cur.availableEnvs[envChoice].env,
                             !.details = Some(cur.availableEnvs[envChoice]),
                             !.suggestedLocalPort =
                                 nextAvailablePort(StartPort, reservedLocalPorts)]
                /\ pc' = "promptLocalPort"
                /\ UNCHANGED <<rlClosed, notices, svcIdx, selectedConfigs>>
                /\ UNCHANGED runVars
    /\ UNCHANGED <<platform, exitStatus, spinner, namespace, namespaces, podsData, servicesMap,
                   servicesList, selectedNumbers, selectedServices, reservedLocalPorts>>

\* reservedLocalPorts.has(localPort): a Set of strings, tested by string.
IsReserved(reserved, localPort) == localPort \in reserved

\* One round of the local port loop: the prompt is answered.
LocalPortAnswered(localPortAnswer) ==
    /\ Alive /\ pc = "promptLocalPort"
    /\ prompted' = "localPort" /\ answer' = localPortAnswer
    /\ LET localPort == IF localPortAnswer # <<>> THEN localPortAnswer
                        ELSE cur.suggestedLocalPort
       IN  IF ~isValidPort(localPort)
           THEN /\ notices' = notices \cup {"Invalid port."}
                /\ UNCHANGED <<pc, spinner, cur, reservedLocalPorts>>
           ELSE IF IsReserved(reservedLocalPorts, localPort)
           THEN /\ notices' = notices \cup {"Port is already used by another selection."}
                /\ UNCHANGED <<pc, spinner, cur, reservedLocalPorts>>
           ELSE /\ reservedLocalPorts' = reservedLocalPorts \cup {localPort}
                /\ cur' = [cur EXCEPT !.localPort = localPort]
                /\ pc' = "awaitServicePort"
                /\ spinner' = TRUE
                /\ UNCHANGED notices
    /\ UNCHANGED <<platform, exitStatus, rlClosed, namespace, namespaces, podsData, servicesMap,
                   servicesList, selectedNumbers, selectedServices, svcIdx, selectedConfigs>>
    /\ UNCHANGED runVars

\* The literal default of getServicePort: "3000".
DefaultServicePort == <<"3", "0", "0", "0">>

\* getServicePort resolves: the detected port text (detected = TRUE), or
\* the literal default after the command failed.
ServicePortLoaded(detected, stdout) ==
    /\ Alive /\ pc = "awaitServicePort"
    /\ cur' = [cur EXCEPT !.servicePortDetected =
                              IF detected THEN stdout ELSE DefaultServicePort]
    /\ notices' = IF detected THEN notices ELSE notices \cup {"Error detecting port"}
    /\ spinner' = FALSE
    /\ pc' = "promptServicePort"
    /\ UNCHANGED <<platform, exitStatus, rlClosed, namespace, prompted, answer, namespaces,
                   podsData, servicesMap, servicesList, selectedNumbers, selectedServices, svcIdx,
                   reservedLocalPorts, selectedConfigs>>
    /\ UNCHANGED runVars

\* The destination port prompt is answered.
ServicePortAnswered(servicePortAnswer) ==
    /\ Alive /\ pc = "promptServicePort"
    /\ prompted' = "servicePort" /\ answer' = servicePortAnswer
    /\ LET servicePort == IF servicePortAnswer # <<>> THEN servicePortAnswer
                          ELSE cur.servicePortDetected
       IN  notices' = IF isValidPort(servicePort) THEN notices
                      ELSE notices \cup {"Invalid destination port."}
    /\ cur' = [cur EXCEPT !.servicePortAnswer = servicePortAnswer]
    /\ pc' = "promptLogs"
    /\ UNCHANGED <<platform, exitStatus, spinner, rlClosed, namespace, namespaces,
                   podsData, servicesMap, servicesList, selectedNumbers, selectedServices, svcIdx,
                   reservedLocalPorts, selectedConfigs>>
    /\ UNCHANGED runVars

\* String.prototype.toLowerCase on the letters the answers use.
ToLower(s) ==
    [i \in 1..Len(s) |-> CASE s[i] = "Y" -> "y" [] s[i] = "N" -> "n" [] OTHER -> s[i]]

showLogsOf(logsAnswer) ==
    LET lower      == ToLower(logsAnswer)
        logsChoice == Trim(IF lower # <<>> THEN lower ELSE <<"y">>)
    IN  logsChoice \in {<<"y">>, <<"y", "e", "s">>, <<>>}

\* The configuration pushed for the current iteration.
ConfigOf(c, ns, showLogs) ==
    LET servicePort == IF c.servicePortAnswer # <<>> THEN c.servicePortAnswer
                       ELSE c.servicePortDetected
    IN  [selectedService  |-> c.service,
         environment      |-> c.environment,
         envLabel         |-> envLabelOf(c.environment),
         serviceId        |-> c.details[1].id,
         serviceName      |-> c.details[1].serviceName,
         serviceNamespace |-> IF ns # None THEN ns ELSE c.details[1].namespace,
         localPort        |-> c.localPort,
         servicePort      |-> IF c.servicePortAnswer # <<>> THEN servicePort
                              ELSE c.servicePortDetected,
         showLogs         |-> showLogs]

\* The logs prompt is answered: the configuration is finalized and the loop
\* goes on.
LogsAnswered(logsAnswer) ==
    /\ Alive /\ pc = "promptLogs"
    /\ prompted' = "logs" /\ answer' = logsAnswer
    /\ ContinueLoop(servicesMap, selectedServices, svcIdx + 1,
                    Append(selectedConfigs, ConfigOf(cur, namespace, showLogsOf(logsAnswer))),
                    notices)
    /\ UNCHANGED <<platform, exitStatus, spinner, namespace, namespaces, podsData, servicesMap,
                   servicesList, selectedNumbers, selectedServices, reservedLocalPorts>>

(***************************************************************************)
(* Session Supervisor: the output of the tunnel children                   *)
(***************************************************************************)
\* text.replace(/\r\n/g, "\n").replace(/\r/g, "\n")
RECURSIVE Normalize(_)
Normalize(text) ==
    IF text = <<>> THEN <<>>
    ELSE IF Head(text) = "\r"
         THEN IF Len(text) >= 2 /\ text[2] = "\n"
              THEN <<"\n">> \o Normalize(Tail(Tail(text)))
              ELSE <<"\n">> \o Normalize(Tail(text))
         ELSE <<Head(text)>> \o Normalize(Tail(text))

\* The lines writePrefixedLines writes for one call: every piece of the
\* split but a trailing empty one, each under the child's prefix (src) and
\* in the colour that tells the kind of line.
writePrefixedLines(kind, src, data) ==
    LET lines == Split(Normalize(data), "\n")
        n     == IF lines[Len(lines)] = <<>> THEN Len(lines) - 1 ELSE Len(lines)
    IN  [i \in 1..n |-> [src |-> src, kind |-> kind, text |-> lines[i]]]

AvailableText(cfg) == <<"Service available at: http://localhost:">> \o cfg.localPort

\* The stdout handler without "printedAvailable = true".
StdoutDataAnnouncesAgain(c, data, limit) ==
    /\ Alive /\ c \in 1..Len(processes) /\ processes[c].state = "running"
    /\ events < limit
    /\ events' = events + 1
    /\ delivered' = Append(delivered, [src |-> c, kind |-> "stdout", data |-> data])
    /\ out' = out
              \o (IF ~processes[c].printedAvailable
                  THEN writePrefixedLines("available", c, AvailableText(selectedConfigs[c]))
                  ELSE <<>>)
              \o writePrefixedLines("stdout", c, data)
    /\ UNCHANGED <<platform, exitStatus, pc, spinner, rlClosed, namespace, prompted, answer,
                   notices, viewers, inlineLogs, processes, handlers, isShuttingDown,
                   timers, now, calls, pendingErrors>>
    /\ UNCHANGED cfgVars

\* p.stdout.on("data"); limit bounds the chunks delivered in a run.
StdoutData(c, data, limit) ==
    /\ Alive /\ c \in 1..Len(processes) /\ processes[c].state = "running"
    /\ events < limit
    /\ events' = events + 1
    /\ delivered' = Append(delivered, [src |-> c, kind |-> "stdout", data |-> data])
    /\ out' = out
              \o (IF ~processes[c].printedAvailable
                  THEN writePrefixedLines("available", c, AvailableText(selectedConfigs[c]))
                  ELSE <<>>)
              \o writePrefixedLines("stdout", c, data)
    /\ processes' = [processes EXCEPT ![c].printedAvailable = TRUE]
    /\ UNCHANGED <<platform, exitStatus, pc, spinner, rlClosed, namespace, prompted, answer,
                   notices, viewers, inlineLogs, handlers, isShuttingDown, timers, now,
                   calls, pendingErrors>>
    /\ UNCHANGED cfgVars

\* The stderr handler writing its lines ahead of what is on the terminal.
StderrDataWritesAhead(c, data, limit) ==
    /\ Alive /\ c \in 1..Len(processes) /\ processes[c].state = "running"
    /\ events < limit
    /\ events' = events + 1
    /\ delivered' = Append(delivered, [src |-> c, kind |-> "stderr", data |-> data])
    /\ out' = writePrefixedLines("stderr", c, data) \o out
    /\ UNCHANGED <<platform, exitStatus, pc, spinner, rlClosed, namespace, prompted, answer,
                   notices, viewers, inlineLogs, processes, handlers, isShuttingDown,
                   timers, now, calls, pendingErrors>>
    /\ UNCHANGED cfgVars

\* p.stderr.on("data")
StderrData(c, data, limit) ==
    /\ Alive /\ c \in 1..Len(processes) /\ processes[c].state = "running"
    /\ events < limit
    /\ events' = events + 1
    /\ delivered' = Append(delivered, [src |-> c, kind |-> "stderr", data |-> data])
    /\ out' = out \o writePrefixedLines("stderr", c, data)
    /\ UNCHANGED <<platform, exitStatus, pc, spinner, rlClosed, namespace, prompted, answer,
                   notices, viewers, inlineLogs, processes, handlers, isShuttingDown,
                   timers, now, calls, pendingErrors>>
    /\ UNCHANGED cfgVars

\* The close handler taking a child's end for the end of the run.
ChildCloseShutsDown(c, code) ==
    /\ Alive /\ c \in 1..Len(processes) /\ processes[c].state = "running"
    /\ processes' = [processes EXCEPT ![c].state = "closed"]
    /\ out' = out \o writePrefixedLines("exit", c, <<"port-forward exited with code ", code>>)
    /\ isShuttingDown' = TRUE
    /\ UNCHANGED <<platform, exitStatus, pc, spinner, rlClosed, namespace, prompted, answer,
                   notices, viewers, inlineLogs, handlers, timers, now,
                   calls, pendingErrors, events, delivered>>
    /\ UNCHANGED cfgVars

\* p.on("close"): the child has ended, with an exit code or null.
ChildClose(c, code) ==
    /\ Alive /\ c \in 1..Len(processes) /\ processes[c].state = "running"
    /\ processes' = [processes EXCEPT ![c].state = "closed"]
    /\ out' = out \o writePrefixedLines("exit", c, <<"port-forward exited with code ", code>>)
    /\ UNCHANGED <<platform, exitStatus, pc, spinner, rlClosed, namespace, prompted, answer,
                   notices, viewers, inlineLogs, handlers, isShuttingDown, timers, now,
                   calls, pendingErrors, events, delivered>>
    /\ UNCHANGED cfgVars

\* An 'error' event reaches an emitter that has no 'error' listener: the
\* exception is uncaught and ends the script.
UncaughtError ==
    /\ exitStatus = "none" /\ pendingErrors # {}
    /\ exitStatus' = "uncaught exception"
    /\ UNCHANGED <<platform, pc, spinner, rlClosed, namespace, prompted, answer, notices>>
    /\ UNCHANGED cfgVars /\ UNCHANGED runVars

(***************************************************************************)
(* Shutdown Coordinator: attachGracefulShutdown                            *)
(***************************************************************************)
\* The delay of the forced kill and of the exit timer, in milliseconds.
KillDelay == 1500
ExitDelay == 200

\* The signal of the graceful request: p.kill() sends SIGTERM.
GracefulSignal == IF platform = "win32" THEN "SIGTERM" ELSE "SIGINT"

\* p.kill(signal) on child p: the signal reaches a running child when the
\* call succeeds (sent); a failed call throws or returns false, and both are
\* ignored.
Kill(p, signal, sent) ==
    IF sent /\ p.state = "running" THEN [p EXCEPT !.signals = Append(@, signal)] ELSE p

\* killPortForwardProcess that returns early for a child that has ended.
KillCallsSkipsEnded(i, tree) ==
    IF ~processes[i].pid \/ processes[i].state # "running" THEN <<>>
    ELSE IF platform = "win32"
    THEN <<[op |-> "kill", child |-> i, signal |-> "SIGTERM"],
           [op |-> "taskkill", child |-> i, signal |-> tree]>>
    ELSE <<[op |-> "kill", child |-> i, signal |-> "SIGINT"],
           [op |-> "setTimeout", child |-> i, signal |-> "SIGKILL"]>>

\* The calls killPortForwardProcess(p) makes for child i: p.kill and, on
\* Windows, the spawn of taskkill (with its fate), elsewhere the grace timer.
KillCalls(i, tree) ==
    IF ~processes[i].pid THEN <<>>
    ELSE IF platform = "win32"
    THEN <<[op |-> "kill", child |-> i, signal |-> "SIGTERM"],
           [op |-> "taskkill", child |-> i, signal |-> tree]>>
    ELSE <<[op |-> "kill", child |-> i, signal |-> "SIGINT"],
           [op |-> "setTimeout", child |-> i, signal |-> "SIGKILL"]>>

\* The loop of shutdown over a registry that holds the first child only.
AllKillCallsFirstOnly(i, tree) ==
    IF i > 1 \/ i > Len(processes) THEN <<>> ELSE KillCalls(i, tree)

RECURSIVE AllKillCalls(_, _)
AllKillCalls(i, tree) ==
    IF i > Len(processes) THEN <<>>
    ELSE KillCalls(i, tree) \o AllKillCalls(i + 1, tree)

\* The shutdown sequence without the exit timer.
BeginShutdownNoExitTimer(reason, sent, tree) ==
    /\ isShuttingDown' = TRUE
    /\ out' = Append(out, [src |-> 0, kind |-> "shutdown", text |-> <<reason>>])
    /\ rlClosed' = TRUE
    /\ processes' = [i \in 1..Len(processes) |->
                        IF processes[i].pid
                        THEN Kill(processes[i], GracefulSignal, sent[i])
                        ELSE processes[i]]
    /\ calls' = calls \o <<[op |-> "print", child |-> 0, signal |-> reason],
                           [op |-> "rl.close", child |-> 0, signal |-> ""]>>
                      \o AllKillCalls(1, tree)
    /\ timers' = timers
                 \cup {[kind |-> "SIGKILL", child |-> i, due |-> now + KillDelay] :
                          i \in {j \in 1..Len(processes) :
                                    processes[j].pid /\ platform # "win32"}}
    /\ pendingErrors' = pendingErrors
                        \cup {[kind |-> "taskkill", idx |-> i] :
                                 i \in {j \in 1..Len(processes) :
                                           processes[j].pid /\ platform = "win32"
                                           /\ tree = "error"}}

\* shutdown(reason) when it is not a repeat: the announcement, rl.close(),
\* killPortForwardProcess for every tracked child and the exit timer.
\* sent[i] tells whether the graceful signal reaches child i; tree is the
\* fate of the taskkill helper on Windows: "ok", "throws" (spawn throws) or
\* "error" (spawn queues an 'error' event on the helper).
BeginShutdown(reason, sent, tree) ==
    /\ isShuttingDown' = TRUE
    /\ out' = Append(out, [src |-> 0, kind |-> "shutdown", text |-> <<reason>>])
    /\ rlClosed' = TRUE
    /\ processes' = [i \in 1..Len(processes) |->
                        IF processes[i].pid
                        THEN Kill(processes[i], GracefulSignal, sent[i])
                        ELSE processes[i]]
    /\ calls' = calls \o <<[op |-> "print", child |-> 0, signal |-> reason],
                           [op |-> "rl.close", child |-> 0, signal |-> ""]>>
                      \o AllKillCalls(1, tree)
                      \o <<[op |-> "setTimeout", child |-> 0, signal |-> "exit"]>>
    /\ timers' = timers
                 \cup {[kind |-> "SIGKILL", child |-> i, due |-> now + KillDelay] :
                          i \in {j \in 1..Len(processes) :
                                    processes[j].pid /\ platform # "win32"}}
                 \cup {[kind |-> "exit", child |-> 0, due |-> now + ExitDelay]}
    /\ pendingErrors' = pendingErrors
                        \cup {[kind |-> "taskkill", idx |-> i] :
                                 i \in {j \in 1..Len(processes) :
                                           processes[j].pid /\ platform = "win32"
                                           /\ tree = "error"}}

\* shutdown without the isShuttingDown guard.
shutdownUnguarded(reason, sent, tree) == BeginShutdown(reason, sent, tree)

shutdown(reason, sent, tree) ==
    IF isShuttingDown
    THEN UNCHANGED <<isShuttingDown, out, rlClosed, processes, calls, timers, pendingErrors>>
    ELSE BeginShutdown(reason, sent, tree)

TreeFates == IF platform = "win32" THEN {"ok", "throws", "error"} ELSE {"ok"}

\* A signal is delivered to the script. With a process.once listener for it
\* the listener is removed and runs shutdown; without one the default
\* disposition ends the script at once.
Signal(sig) ==
    /\ exitStatus = "none"
    /\ IF sig \in handlers
       THEN /\ pendingErrors = {}
            /\ handlers' = handlers \ {sig}
            /\ \E sent \in [1..Len(processes) -> BOOLEAN],
                  tree \in TreeFates :
                 shutdown(sig, sent, tree)
            /\ UNCHANGED exitStatus
       ELSE /\ exitStatus' = sig
            /\ UNCHANGED <<handlers, isShuttingDown, out, rlClosed, processes, calls, timers,
                           pendingErrors>>
    /\ UNCHANGED <<platform, pc, spinner, namespace, prompted, answer, notices, viewers,
                   inlineLogs, now, events, delivered>>
    /\ UNCHANGED cfgVars

\* The timers that are due first.
NextTimers == {t \in timers : \A u \in timers : t.due <= u.due}

\* The timer due first fires: process.exit(0), or the forced kill of a
\* child (sent tells whether the SIGKILL reaches it).
TimerFires(t, sent) ==
    /\ Alive /\ t \in NextTimers
    /\ now' = IF t.due > now THEN t.due ELSE now
    /\ IF t.kind = "exit"
       THEN /\ exitStatus' = "exit 0"
            /\ timers' = {}
            /\ UNCHANGED <<processes, calls>>
       ELSE /\ timers' = timers \ {t}
            /\ processes' = [processes EXCEPT ![t.child] = Kill(@, "SIGKILL", sent)]
            /\ calls' = Append(calls, [op |-> "kill", child |-> t.child, signal |-> "SIGKILL"])
            /\ UNCHANGED exitStatus
    /\ UNCHANGED <<platform, pc, spinner, rlClosed, namespace, prompted, answer, notices,
                   viewers, inlineLogs, handlers, isShuttingDown, out, pendingErrors, events, delivered>>
    /\ UNCHANGED cfgVars

\* Nothing keeps the event loop alive: main() has returned, the input
\* source is closed, no child or log window is pending (the timers of the
\* shutdown path are unref'd). The script ends with status 0.
LoopIsEmpty ==
    /\ pc = "done" /\ rlClosed /\ ~spinner
    /\ \A i \in 1..Len(processes) : processes[i].state # "running"
    /\ \A i \in 1..Len(viewers) : viewers[i].stage = "done"
    /\ inlineLogs = 0

NaturalExit ==
    /\ Alive /\ LoopIsEmpty
    /\ exitStatus' = "exit 0"
    /\ UNCHANGED <<platform, pc, spinner, rlClosed, namespace, prompted, answer, notices>>
    /\ UNCHANGED cfgVars /\ UNCHANGED runVars

(***************************************************************************)
(* openLogsInTerminal: the callbacks of the log window launch              *)
(***************************************************************************)
\* The launch tried after this one fails, or "inline" for the fallback.
NextViewerStage(stage) ==
    CASE stage = "gnome-terminal" -> "x-terminal-emulator"
      [] stage = "x-terminal-emulator" -> "xterm"
      [] OTHER -> "inline"

\* The callback of exec (Windows, Linux): with an error the next terminal is
\* tried, and after the last one the logs command is spawned inline.
ViewerExecDone(v, err) ==
    /\ Alive /\ v \in 1..Len(viewers)
    /\ viewers[v].stage \in {"start", "gnome-terminal", "x-terminal-emulator", "xterm"}
    /\ IF ~err
       THEN viewers' = [viewers EXCEPT ![v].stage = "done"] /\ UNCHANGED inlineLogs
       ELSE IF NextViewerStage(viewers[v].stage) = "inline"
       THEN /\ viewers' = [viewers EXCEPT ![v].stage = "done", ![v].failed = TRUE,
                                          ![v].inline = @ + 1]
            /\ inlineLogs' = inlineLogs + 1
       ELSE /\ viewers' = [viewers EXCEPT ![v].stage = NextViewerStage(viewers[v].stage)]
            /\ UNCHANGED inlineLogs
    /\ UNCHANGED <<platform, exitStatus, pc, spinner, rlClosed, namespace, prompted, answer,
                   notices, processes, handlers, isShuttingDown, timers, now, out, calls,
                   pendingErrors, events, delivered>>
    /\ UNCHANGED cfgVars

\* child.on("error") of the osascript child (macOS): it could not be run.
ViewerError(v) ==
    /\ Alive /\ v \in 1..Len(viewers)
    /\ viewers[v].stage = "osascript" /\ ~viewers[v].errored
    /\ viewers' = [viewers EXCEPT ![v].errored = TRUE, ![v].failed = TRUE,
                                  ![v].inline = @ + 1]
    /\ inlineLogs' = inlineLogs + 1
    /\ UNCHANGED <<platform, exitStatus, pc, spinner, rlClosed, namespace, prompted, answer,
                   notices, processes, handlers, isShuttingDown, timers, now, out, calls,
                   pendingErrors, events, delivered>>
    /\ UNCHANGED cfgVars

\* child.on("close") of the osascript child (macOS); after an 'error' event
\* the code is the negative error number.
ViewerClose(v, code) ==
    /\ Alive /\ v \in 1..Len(viewers)
    /\ viewers[v].stage = "osascript"
    /\ viewers[v].errored => code # 0
    /\ viewers' = [viewers EXCEPT ![v].stage = "done",
                                  ![v].failed = (@ \/ code # 0),
                                  ![v].inline = IF code # 0 THEN @ + 1 ELSE @]
    /\ inlineLogs' = IF code # 0 THEN inlineLogs + 1 ELSE inlineLogs
    /\ UNCHANGED <<platform, exitStatus, pc, spinner, rlClosed, namespace, prompted, answer,
                   notices, processes, handlers, isShuttingDown, timers, now, out, calls,
                   pendingErrors, events, delivered>>
    /\ UNCHANGED cfgVars

(***************************************************************************)
(* Specifications                                                          *)
(***************************************************************************)
InitWith(flags, platforms) ==
    /\ platform \in platforms
    /\ namespace \in flags
    /\ exitStatus = "none" /\ pc = "start" /\ spinner = FALSE /\ rlClosed = FALSE
    /\ namespaces = <<>> /\ podsData = <<>> /\ servicesMap = <<>> /\ servicesList = <<>>
    /\ selectedNumbers = Selection(<<>>)
    /\ selectedServices = <<>> /\ svcIdx = 0 /\ cur = EmptyCur
    /\ reservedLocalPorts = {} /\ selectedConfigs = <<>>
    /\ prompted = "none" /\ answer = <<>> /\ notices = {}
    /\ viewers = <<>> /\ inlineLogs = 0 /\ processes = <<>> /\ handlers = {}
    /\ isShuttingDown = FALSE /\ timers = {} /\ now = 0 /\ out = <<>> /\ calls = <<>>
    /\ pendingErrors = {} /\ events = 0 /\ delivered = <<>>

Signals == {"SIGINT", "SIGTERM"}

\* What the cluster CLI prints for the port of a service.
port80 == <<"8", "0">>

\* The listing kubectl prints for the command getPods builds.
AllNamespaces == namespace = None \/ namespace = Some(<<>>)

(* Spec: the whole run with the operator taking the defaults: the prompts  *)
(* are answered with the empty line ("1" or "1,2" for the services, "n"    *)
(* for the logs), or a run that ends at the catalog or at the service      *)
(* prompt; the children write, end and are shut down in every order.       *)
Chunks == { <<"a", "\n">>, <<"a", "\r", "\n", "b">> }

ExitCodes == {"0", "1", "null"}

\* The number of output chunks the children deliver in a run of Spec.
MaxEvents == 1

Init == InitWith({None}, {"win32", "linux"})

Configure ==
    \/ Start
    \/ NamespacesLoaded(ns1)
    \/ CommandFailed
    \/ NamespaceAnswered(<<>>)
    \/ \E l \in {ListingAll, ListingNone} : PodsLoaded(l)
    \/ \E a \in { <<"1">>, <<"1", ",", "2">>, <<>>, <<"9">> } : ServicesAnswered(a)
    \/ EnvAnswered(<<>>)
    \/ LocalPortAnswered(<<>>)
    \/ ServicePortLoaded(TRUE, port80)
    \/ ServicePortAnswered(<<>>)
    \/ LogsAnswered(<<"n">>)

Next ==
    \/ Configure
    \/ \E c \in 1..Len(processes), data \in Chunks : StdoutData(c, data, MaxEvents)
    \/ \E c \in 1..Len(processes), data \in Chunks : StderrData(c, data, MaxEvents)
    \/ \E c \in 1..Len(processes), code \in ExitCodes : ChildClose(c, code)
    \/ UncaughtError
    \/ \E sig \in Signals : Signal(sig)
    \/ \E t \in timers, sent \in BOOLEAN : TimerFires(t, sent)
    \/ NaturalExit

Spec == Init /\ [][Next]_vars

(* SpecOutput: the same run without signals, with more output: what the    *)
(* supervisor writes for every sequence of chunks and exits.               *)
MaxChunks == 3

NextOutput ==
    \/ Configure
    \/ \E c \in 1..Len(processes), data \in Chunks : StdoutData(c, data, MaxChunks)
    \/ \E c \in 1..Len(processes), data \in Chunks : StderrData(c, data, MaxChunks)
    \/ \E c \in 1..Len(processes), code \in ExitCodes : ChildClose(c, code)
    \/ UncaughtError
    \/ NaturalExit

SpecOutput == Init /\ [][NextOutput]_vars

(* SpecConfig: the interactive configuration with every kind of answer,    *)
(* up to the spawn of the tunnels and the end of a run that spawns none.   *)
NsOutputs == { <<>>, <<"n">>, <<"n", " ", "m", "\n">> }

NsAnswers == { <<>>, <<"0">>, <<"1">>, <<"9">>, <<"x">>, <<"-", "1">> }

Listings ==
    IF AllNamespaces THEN {ListingAll, ListingBroken, <<>>}
    ELSE {ListingNs, ListingOne, ListingNone}

\* The answers to the service prompt: every string of these characters up
\* to MaxAnswerLen, and one longer list with a repeat.
AnswerChars == {"1", "2", "9", "x", ",", " "}

MaxAnswerLen == 3

ServiceAnswers ==
    UNION {[1..k -> AnswerChars] : k \in 0..MaxAnswerLen}
    \cup { <<"2", ",", " ", "1", ",", "2">> }

EnvAnswers == { <<>>, <<"0">>, <<"1">>, <<"2">>, <<"9">>, <<"x">>, <<"-", "1">> }

LocalPortAnswers ==
    { <<>>, <<"3", "0", "0", "0">>, <<"0", "3", "0", "0", "0">>, <<"3", "0", "0", "1">>,
      <<"0">>, <<"6", "5", "5", "3", "6">>, <<"a">> }

ServicePortAnswers == { <<>>, <<"8", "1">>, <<"a">> }

LogsAnswers == { <<>>, <<"n">>, <<"Y">> }

InitConfig == InitWith({None, Some(ns1)}, {"linux"})

NextConfig ==
    \/ Start
    \/ \E o \in NsOutputs : NamespacesLoaded(o)
    \/ CommandFailed
    \/ \E a \in NsAnswers : NamespaceAnswered(a)
    \/ \E l \in Listings : PodsLoaded(l)
    \/ \E a \in ServiceAnswers : ServicesAnswered(a)
    \/ \E a \in EnvAnswers : EnvAnswered(a)
    \/ \E a \in LocalPortAnswers : LocalPortAnswered(a)
    \/ \E detected \in BOOLEAN : ServicePortLoaded(detected, port80)
    \/ \E a \in ServicePortAnswers : ServicePortAnswered(a)
    \/ \E a \in LogsAnswers : LogsAnswered(a)
    \/ UncaughtError
    \/ NaturalExit

SpecConfig == InitConfig /\ [][NextConfig]_vars

(* SpecLogs: a run under an explicit namespace whose sessions may ask for  *)
(* a log window, on every platform, with the callbacks of the launch.      *)
ViewerCodes == {0, 1}

InitLogs == InitWith({Some(ns1)}, Platforms)

NextLogs ==
    \/ Start
    \/ PodsLoaded(ListingNs)
    \/ \E a \in { <<"1">>, <<"1", ",", "2">> } : ServicesAnswered(a)
    \/ \E a \in { <<>>, <<"9">> } : EnvAnswered(a)
    \/ LocalPortAnswered(<<>>)
    \/ ServicePortLoaded(TRUE, port80)
    \/ ServicePortAnswered(<<>>)
    \/ \E a \in { <<>>, <<"n">> } : LogsAnswered(a)
    \/ \E v \in 1..Len(viewers), err \in BOOLEAN : ViewerExecDone(v, err)
    \/ \E v \in 1..Len(viewers) : ViewerError(v)
    \/ \E v \in 1..Len(viewers), code \in ViewerCodes : ViewerClose(v, code)
    \/ \E c \in 1..Len(processes), code \in ExitCodes : ChildClose(c, code)
    \/ UncaughtError
    \/ NaturalExit

SpecLogs == InitLogs /\ [][NextLogs]_vars

(* SpecCatalog: the run up to the catalog, over listings of one or two     *)
(* rows under each header.                                                 *)
team1 == <<"t", "e", "a", "m", "1">>

podCheckout3 == <<"d", "e", "v", "-", "c", "h", "e", "c", "k", "o", "u", "t", "-",
                  "a", "b", "c", "1", "2", "3">>
podCheckoutDev == <<"d", "e", "v", "-", "c", "h", "e", "c", "k", "o", "u", "t", "-",
                    "a", "b", "c", "-", "1">>
podCheckoutDev2 == <<"d", "e", "v", "-", "c", "h", "e", "c", "k", "o", "u", "t", "-",
                     "a", "b", "c", "-", "2">>
podCheckoutQa == <<"q", "a", "-", "c", "h", "e", "c", "k", "o", "u", "t", "-",
                   "a", "b", "c", "-", "1">>
podCheckoutTeam == team1 \o <<"-", "c", "h", "e", "c", "k", "o", "u", "t", "-",
                              "a", "b", "c", "-", "1">>
podTwoSegments == <<"c", "h", "e", "c", "k", "o", "u", "t", "-", "1">>

PodNames == {podCheckout3, podCheckoutDev, podCheckoutDev2, podCheckoutQa,
             podCheckoutTeam, podTwoSegments}

Statuses == {Running, Pending}

Headers == { <<NAMESPACE, NAME, STATUS>>, <<NAME, STATUS>>, <<NAME>>, <<NAMESPACE, NAME>> }

\* The rows kubectl prints under a header: one column for each title.
RowsUnder(header) ==
    {Row([i \in 1..Len(header) |->
             IF header[i] = NAMESPACE THEN team1
             ELSE IF header[i] = NAME THEN name ELSE status]) :
        name \in PodNames, status \in Statuses}

MaxRows == 2

CatalogListings ==
    UNION {{Text(<<Row(header)>> \o rows) :
               rows \in UNION {[1..k -> RowsUnder(header)] : k \in 1..MaxRows}} :
           header \in Headers}

InitCatalog == InitWith({None, Some(team1)}, {"linux"})

NextCatalog ==
    \/ Start
    \/ NamespacesLoaded(team1)
    \/ \E a \in { <<>>, <<"1">> } : NamespaceAnswered(a)
    \/ \E l \in CatalogListings : PodsLoaded(l)

SpecCatalog == InitCatalog /\ [][NextCatalog]_vars

(* FairSpec: Spec with the scheduling of the event loop: a timer that is   *)
(* due fires, and an uncaught exception ends the script.                   *)
FairSpec ==
    /\ Spec
    /\ WF_vars(\E t \in timers, sent \in BOOLEAN : TimerFires(t, sent))
    /\ WF_vars(UncaughtError)

(***************************************************************************)
(* Claims                                                                  *)
(***************************************************************************)
Children == 1..Len(processes)

Announcements == {k \in 1..Len(out) : out[k].kind = "shutdown"}

\* The graceful requests the shutdown path has made to child c.
GracefulRequests(c) ==
    {k \in 1..Len(calls) :
        calls[k].op = "kill" /\ calls[k].child = c /\ calls[k].signal = GracefulSignal}

TreeKills(c) == {k \in 1..Len(calls) : calls[k].op = "taskkill" /\ calls[k].child = c}

GraceTimers(c) ==
    {k \in 1..Len(calls) :
        calls[k].op = "setTimeout" /\ calls[k].child = c /\ calls[k].signal = "SIGKILL"}

\* A step in which a signal runs its listener while shutdown is under way.
RepeatedTrigger == isShuttingDown /\ handlers' # handlers

C2_DistinctLocalPorts ==
    /\ \A i, j \in 1..Len(selectedConfigs) :
         i # j => Number(selectedConfigs[i].localPort) # Number(selectedConfigs[j].localPort)
    /\ \A i \in 1..Len(selectedConfigs) :
         /\ isValidPort(selectedConfigs[i].localPort)
         /\ pc = "promptLocalPort" => selectedConfigs[i].localPort \in reservedLocalPorts

\* C3: once the script has ended through its exit timer, every child that
\* got the graceful signal and did not end has been sent the forced kill.
C3_ForcedKillDelivered ==
    (isShuttingDown /\ exitStatus = "exit 0" /\ platform # "win32") =>
        \A c \in Children :
            (processes[c].state = "running"
               /\ \E k \in 1..Len(processes[c].signals) : processes[c].signals[k] = "SIGINT")
            => \E k \in 1..Len(processes[c].signals) : processes[c].signals[k] = "SIGKILL"

\* C4: once shutdown has begun the script ends, whatever the children do.
C4_ShutdownBounded == isShuttingDown ~> (exitStatus # "none")

\* The script has ended through shutdown with a child still running that
\* no signal has reached.
C4_Witness ==
    /\ isShuttingDown /\ exitStatus = "exit 0"
    /\ \E c \in Children : processes[c].state = "running" /\ processes[c].signals = <<>>
    /\ \A c \in Children : processes[c].state = "running"

\* C5: in ShuttingDown the input source is closed and every tracked child
\* has been sent the graceful request after the close: SIGINT, or on
\* Windows p.kill() and the taskkill of its tree.
C5_EveryChildAskedToEnd ==
    isShuttingDown =>
        /\ rlClosed
        /\ \A c \in Children :
             /\ \E k \in GracefulRequests(c) :
                  \E r \in 1..(k - 1) : calls[r].op = "rl.close"
             /\ platform = "win32" => TreeKills(c) # {}

\* Shutdown has run with two tracked children, one of which had ended.
C5_Witness ==
    /\ isShuttingDown /\ Len(processes) = 2
    /\ \E c \in Children : processes[c].state = "closed" /\ GracefulRequests(c) # {}
                           /\ \E k \in 1..Len(out) :
                                /\ out[k].kind = "exit" /\ out[k].src = c
                                /\ \A a \in Announcements : k < a

AvailableLines(c) == {k \in 1..Len(out) : out[k].src = c /\ out[k].kind = "available"}
StdoutLines(c) == {k \in 1..Len(out) : out[k].src = c /\ out[k].kind = "stdout"}
StderrLines(c) == {k \in 1..Len(out) : out[k].src = c /\ out[k].kind = "stderr"}

\* C6: the "service available" line is written at most once per child,
\* right before the first standard output line of that child, and only
\* for a child that has written to standard output.
C6_AvailableOncePerChild ==
    \A c \in Children :
        /\ Cardinality(AvailableLines(c)) <= 1
        /\ \A k \in AvailableLines(c) :
             /\ k < Len(out) /\ out[k + 1].src = c /\ out[k + 1].kind = "stdout"
             /\ \A j \in StdoutLines(c) : j > k
        /\ StdoutLines(c) # {} => AvailableLines(c) # {}
        /\ processes[c].printedAvailable <=> AvailableLines(c) # {}

\* One child has written two chunks to standard output, the other one only
\* to standard error.
C6_Witness ==
    \E c, d \in Children :
        /\ c # d
        /\ Cardinality(StdoutLines(c)) >= 3 /\ StderrLines(c) = {}
        /\ Cardinality(AvailableLines(c)) = 1
        /\ StderrLines(d) # {} /\ StdoutLines(d) = {} /\ AvailableLines(d) = {}

\* The non-empty trimmed tokens of a comma list.
TokensOf(input) ==
    LET split == Split(Trim(input), ",")
    IN  FilterNonEmpty([i \in 1..Len(split) |-> Trim(split[i])])

\* The token is a decimal integer in [1, max].
IsIndexToken(t, max) ==
    /\ t # <<>> /\ \A i \in 1..Len(t) : t[i] \in Digits
    /\ DecimalValue(t) >= 1 /\ DecimalValue(t) <= max

\* C7: the answer to the service prompt resolves atomically: null when a
\* token is no integer in [1, max], else the distinct values in ascending
\* order.
C7_SelectionAtomic ==
    prompted = "services" =>
        LET toks == TokensOf(answer)
            max  == Len(servicesList)
        IN  IF \E i \in 1..Len(toks) : ~IsIndexToken(toks[i], max)
            THEN selectedNumbers = Null
            ELSE selectedNumbers =
                     Selection(SortedSeq({DecimalValue(toks[i]) : i \in 1..Len(toks)}))

\* The answer gives parseInt no number, or 0.
Unparsed(a) == ParseInt(a).nan \/ ParseInt(a).val = 0

\* The answer gives parseInt a number below 0 or above max.
Outside(a, max) == ~ParseInt(a).nan /\ (ParseInt(a).val < 0 \/ ParseInt(a).val > max)

\* A token of the list gives parseInt no number in [1, max].
SomeTokenBad(a, max) ==
    \E i \in 1..Len(TokensOf(a)) :
        LET n == ParseInt(TokensOf(a)[i]) IN n.nan \/ n.val < 1 \/ n.val > max

\* The run has ended with "Invalid selection." and nothing was spawned.
Aborted ==
    /\ pc = "done" /\ rlClosed /\ "Invalid selection." \in notices
    /\ processes = <<>> /\ selectedConfigs = <<>>

NamespaceStep == pc = "promptNamespace" /\ pc' # pc
ServicesStep == pc = "promptServices" /\ pc' # pc
EnvStep == pc = "promptEnv" /\ (pc' # pc \/ svcIdx' # svcIdx)

StartupFailure ==
    \/ "No services found." \in notices
    \/ prompted = "services" /\ (~selectedNumbers.valid \/ selectedNumbers.sel = <<>>)

\* C9: after an empty catalog or an invalid or empty service selection a
\* message has been printed, the input source is closed, main() has ended
\* with no later prompt, and no tunnel or log process exists.
C9_StartupFailureEndsRun ==
    StartupFailure =>
        /\ pc = "done" /\ rlClosed
        /\ \/ "No services found." \in notices /\ prompted \in {"none", "namespace"}
           \/ "Invalid selection." \in notices /\ prompted = "services"
        /\ selectedConfigs = <<>>
        /\ processes = <<>> /\ viewers = <<>> /\ inlineLogs = 0
        /\ handlers = {} /\ calls = <<>>

\* The script has ended after an invalid service selection.
C9_Witness ==
    /\ prompted = "services" /\ ~selectedNumbers.valid
    /\ servicesList # <<>> /\ exitStatus = "exit 0"

\* C10: when the namespaces command succeeds with no namespace name, the
\* run reports "No namespaces found.", shows no namespace prompt and ends
\* without listing workloads or spawning.
C10_NoNamespacesEndsRun ==
    (namespaces # <<>> /\ \A i \in 1..Len(namespaces) : namespaces[i] = <<>>) =>
        /\ "No namespaces found." \in notices
        /\ pc = "done" /\ rlClosed /\ prompted = "none"
        /\ servicesList = <<>> /\ processes = <<>>

\* The listing as the operator reads it: a header and data rows.
ListingLines == Split(Trim(podsData), "\n")
ListingHeader == SplitWs(ListingLines[1])
DataRows == 2..Len(ListingLines)
HasColumn(title) == \E i \in 1..Len(ListingHeader) : ListingHeader[i] = title

\* The field of row r under the title, None when there is none.
ColumnOf(r, title) ==
    LET cols == SplitWs(ListingLines[r])
        at   == {i \in 1..Len(ListingHeader) : ListingHeader[i] = title}
    IN  IF at = {} THEN None
        ELSE LET i == CHOOSE k \in at : \A j \in at : k <= j
             IN  IF i <= Len(cols) THEN Some(cols[i]) ELSE None

NameOf(r) == ColumnOf(r, NAME)[1]
Segments(name) == Split(name, "-")
Decomposes(r) == ColumnOf(r, NAME) # None /\ Len(Segments(NameOf(r))) >= 3

\* The data model's rule: the last two segments are the id, what is before
\* them the service name.
IdOf(name) ==
    LET g == Segments(name) IN g[Len(g) - 1] \o <<"-">> \o g[Len(g)]
ServiceNameOf(name) == SubSeq(name, 1, Len(name) - Len(IdOf(name)) - 1)
EnvTagOf(name) ==
    IF \E i \in 1..Len(envPrefixes) : StartsWith(name, envPrefixes[i] \o <<"-">>)
    THEN envPrefixes[CHOOSE i \in 1..Len(envPrefixes) :
                        StartsWith(name, envPrefixes[i] \o <<"-">>)]
    ELSE DEFAULT
NamespaceOf(r) == IF namespace # None THEN namespace ELSE ColumnOf(r, NAMESPACE)

\* The service name without one leading environment prefix and one leading
\* "<namespace>-".
KeyOf(r) ==
    LET sn  == ServiceNameOf(NameOf(r))
        env == {i \in 1..Len(envPrefixes) : StartsWith(sn, envPrefixes[i] \o <<"-">>)}
        a   == IF env = {} THEN sn
               ELSE SubSeq(sn, Len(envPrefixes[CHOOSE i \in env : TRUE]) + 2, Len(sn))
        ns  == NamespaceOf(r)
    IN  IF ns # None /\ ns[1] # <<>> /\ StartsWith(a, ns[1] \o <<"-">>)
        THEN SubSeq(a, Len(ns[1]) + 2, Len(a))
        ELSE a

\* The details the rule gives for row r.
DetailsOf(r) ==
    [env |-> EnvTagOf(NameOf(r)), id |-> IdOf(NameOf(r)), namespace |-> NamespaceOf(r),
     serviceName |-> ServiceNameOf(NameOf(r))]

\* The catalog's entries as (key, details) pairs.
CatalogEntries ==
    UNION {{<<servicesMap[i].key, servicesMap[i].envs[j]>> :
               j \in 1..Len(servicesMap[i].envs)} : i \in 1..Len(servicesMap)}

\* parseServicesMap has returned.
Listed == pc = "promptServices" \/ "No services found." \in notices

\* Row r is not filtered out by its status.
Passes(r) == ColumnOf(r, STATUS) \in {None, Some(Running)}

SameSlot(r, q) == KeyOf(r) = KeyOf(q) /\ EnvTagOf(NameOf(r)) = EnvTagOf(NameOf(q))

\* Row r is the last row that writes its (key, environment) slot.
LastWriter(r) ==
    /\ Decomposes(r) /\ Passes(r)
    /\ \A q \in DataRows : (q > r /\ Decomposes(q) /\ Passes(q)) => ~SameSlot(r, q)

\* The listing of the end-to-end scenario.
ScenarioListing ==
    Text(<< Row(<<NAMESPACE, NAME, STATUS>>), Row(<<team1, podCheckout3, Running>>) >>)

ScenarioRun == Listed /\ podsData = ScenarioListing /\ namespace = Some(team1)

\* C11 as stated: the scenario's listing gives the one entry "checkout" /
\* "dev" with id "abc123" and serviceName "dev-checkout".
C11_ScenarioAsStated ==
    ScenarioRun =>
        servicesMap =
            << [key |-> <<"c", "h", "e", "c", "k", "o", "u", "t">>,
                envs |-> << [env |-> <<"d", "e", "v">>,
                             id |-> <<"a", "b", "c", "1", "2", "3">>,
                             namespace |-> Some(team1),
                             serviceName |-> <<"d", "e", "v", "-", "c", "h", "e", "c", "k",
                                               "o", "u", "t">>] >>] >>

\* C11: the catalog holds, for every row with at least 3 hyphen segments
\* that passes the filter, the key, id and serviceName the decomposition
\* rule gives (the last two segments are the id), the last such row of a
\* (key, environment) slot winning, and nothing else; for the scenario's
\* row dev-checkout-abc123 that is the one entry "dev" / "dev" with id
\* "checkout-abc123" and serviceName "dev".
C11_DecompositionRule ==
    Listed =>
        /\ CatalogEntries = {<<KeyOf(r), DetailsOf(r)>> : r \in {q \in DataRows : LastWriter(q)}}
        /\ ScenarioRun =>
             servicesMap =
                 << [key |-> <<"d", "e", "v">>,
                     envs |-> << [env |-> <<"d", "e", "v">>,
                                  id |-> <<"c", "h", "e", "c", "k", "o", "u", "t", "-",
                                           "a", "b", "c", "1", "2", "3">>,
                                  namespace |-> Some(team1),
                                  serviceName |-> <<"d", "e", "v">>] >>] >>

\* The scenario's listing has been parsed under the namespace team1.
C11_Witness == ScenarioRun /\ pc = "promptServices" /\ Len(servicesMap) = 1

IsRunning(r) == ColumnOf(r, STATUS) = Some(Running)

\* C12: with a STATUS column every catalog entry is the one written by the
\* last Running row of its slot, so a row with another status neither adds
\* nor overwrites an entry; without a STATUS column every row that
\* decomposes is in the catalog; and whichever of STATUS and NAMESPACE is
\* absent, the parser returns without an error.
C12_OnlyRunningRows ==
    podsData # <<>> =>
        /\ Listed /\ "error.message" \notin notices
        /\ HasColumn(STATUS) =>
             \A e \in CatalogEntries :
                 \E r \in DataRows :
                     /\ IsRunning(r) /\ Decomposes(r)
                     /\ e = <<KeyOf(r), DetailsOf(r)>>
                     /\ \A q \in DataRows :
                          (q > r /\ IsRunning(q) /\ Decomposes(q)) => ~SameSlot(r, q)
        /\ ~HasColumn(STATUS) =>
             \A r \in DataRows :
                 Decomposes(r) =>
                     \E e \in CatalogEntries :
                         e[1] = KeyOf(r) /\ e[2].env = EnvTagOf(NameOf(r))

\* A Pending row follows a Running row of the same slot with another id,
\* and the catalog has been built.
C12_Witness ==
    /\ Listed /\ podsData # <<>> /\ HasColumn(STATUS) /\ Len(ListingLines) = 3
    /\ IsRunning(2) /\ ~IsRunning(3) /\ Decomposes(2) /\ Decomposes(3)
    /\ SameSlot(2, 3) /\ IdOf(NameOf(2)) # IdOf(NameOf(3))
    /\ CatalogEntries # {}

\* C13: a run that has ended after its shutdown began, or by normal
\* completion, has ended with status 0, whatever signals were delivered
\* (an uncaught exception is no ending by shutdown).
C13_GracefulExitIsZero ==
    /\ (isShuttingDown /\ exitStatus \notin {"none", "uncaught exception"})
       => exitStatus = "exit 0"
    /\ (~isShuttingDown /\ exitStatus \notin {"none", "uncaught exception"} /\ handlers # {})
       => exitStatus = "exit 0"

\* C14: the run never ends with an unhandled error, and a failure caught by
\* the top-level handler has stopped the spinner, printed the message and
\* closed the input source.
C14_NoUnhandledError ==
    /\ exitStatus # "uncaught exception"
    /\ "error.message" \in notices => (~spinner /\ rlClosed /\ pc = "done")

\* Child c ends in this step.
Closes(c) == processes[c].state = "running" /\ processes'[c].state = "closed"

ExitLines(c) == {k \in 1..Len(out) : out[k].src = c /\ out[k].kind = "exit"}

\* C15: the step in which a tunnel child ends, with any code, appends one
\* exit report under that child's prefix and changes nothing else: the
\* siblings and the tracked set stay as they are, nothing is spawned or
\* signalled, and the shutdown state is the one it was.
C15_ExitOnlyReported ==
    [][\A c \in Children :
          Closes(c) =>
              /\ out' = Append(out, out'[Len(out')])
              /\ out'[Len(out')].src = c /\ out'[Len(out')].kind = "exit"
              /\ \E code \in ExitCodes :
                   out'[Len(out')].text = <<"port-forward exited with code ", code>>
              /\ processes' = [processes EXCEPT ![c].state = "closed"]
              /\ UNCHANGED <<isShuttingDown, calls, timers, handlers, exitStatus,
                             selectedConfigs, pendingErrors, inlineLogs, viewers, rlClosed,
                             notices, pc>>]_vars

\* A child has ended with a code other than 0 while its sibling runs on and
\* no shutdown has begun.
C15_Witness ==
    /\ ~isShuttingDown /\ exitStatus = "none" /\ Len(processes) = 2
    /\ \E c, d \in Children :
         /\ processes[c].state = "closed" /\ processes[d].state = "running"
         /\ Cardinality(ExitLines(c)) = 1 /\ ExitLines(d) = {}
         /\ \E k \in ExitLines(c) : out[k].text[2] # "0"

\* C16: a launch of a log window that failed has started exactly one inline
\* logs process, one that succeeded none, and no launch ever more than one.
C16_OneInlinePerFailedLaunch ==
    \A v \in 1..Len(viewers) :
        /\ viewers[v].inline <= 1
        /\ viewers[v].stage = "done" =>
             viewers[v].inline = (IF viewers[v].failed THEN 1 ELSE 0)

\* The lines of a text: its pieces between line ends (\r\n, \r or \n), the
\* empty piece after a final line end left out.
RECURSIVE LinesOf(_, _)
LinesOf(text, line) ==
    IF text = <<>> THEN (IF line = <<>> THEN <<>> ELSE <<line>>)
    ELSE IF Head(text) = "\n" THEN <<line>> \o LinesOf(Tail(text), <<>>)
    ELSE IF Head(text) = "\r"
         THEN <<line>> \o LinesOf(IF Len(text) >= 2 /\ text[2] = "\n"
                                  THEN Tail(Tail(text)) ELSE Tail(text), <<>>)
    ELSE LinesOf(Tail(text), Append(line, Head(text)))

\* What child c wrote, event by event: the lines of each chunk, tagged with
\* the stream they came on.
RECURSIVE WrittenBy(_, _)
WrittenBy(c, evs) ==
    IF evs = <<>> THEN <<>>
    ELSE (IF Head(evs).src = c
          THEN LET ls == LinesOf(Head(evs).data, <<>>)
               IN  [i \in 1..Len(ls) |-> [kind |-> Head(evs).kind, text |-> ls[i]]]
          ELSE <<>>) \o WrittenBy(c, Tail(evs))

\* The data lines of child c on the terminal, in the order they appear.
RECURSIVE ShownOf(_, _)
ShownOf(c, lines) ==
    IF lines = <<>> THEN <<>>
    ELSE (IF Head(lines).src = c /\ Head(lines).kind \in {"stdout", "stderr"}
          THEN <<[kind |-> Head(lines).kind, text |-> Head(lines).text]>>
          ELSE <<>>) \o ShownOf(c, Tail(lines))

\* C17: for each child the lines on the terminal are, in the same order, the
\* lines of the chunks its data events delivered, whatever the interleaving
\* of its two streams and of the other children's events.
C17_PerChildOrder ==
    \A c \in Children : ShownOf(c, out) = WrittenBy(c, delivered)

\* Three chunks were delivered: the two streams of one child and a chunk of
\* the other child in between.
C17_Witness ==
    /\ Len(delivered) = 3 /\ Len(processes) = 2
    /\ delivered[1].src = delivered[3].src /\ delivered[2].src # delivered[1].src
    /\ delivered[1].kind = "stderr" /\ delivered[3].kind = "stdout"
    /\ delivered[1].data # delivered[3].data

\* The stream child c wrote on one of its pipes: its chunks put together.
RECURSIVE StreamOf(_, _, _)
StreamOf(c, kind, evs) ==
    IF evs = <<>> THEN <<>>
    ELSE (IF Head(evs).src = c /\ Head(evs).kind = kind THEN Head(evs).data ELSE <<>>)
         \o StreamOf(c, kind, Tail(evs))

RECURSIVE TextsOf(_, _, _)
TextsOf(c, kind, lines) ==
    IF lines = <<>> THEN <<>>
    ELSE (IF Head(lines).src = c /\ Head(lines).kind = kind THEN <<Head(lines).text>>
          ELSE <<>>) \o TextsOf(c, kind, Tail(lines))

\* C18: the lines shown for a stream of a child are the lines of the stream,
\* however it was cut into chunks.
C18_LinesIndependentOfChunks ==
    \A c \in Children :
        \A kind \in {"stdout", "stderr"} :
            TextsOf(c, kind, out) = LinesOf(StreamOf(c, kind, delivered), <<>>)

\* C19: tunnels exist only once main() has run through its spawn loop, all
\* of them tracked; a signal before that ends a script without tunnels;
\* once shutdown has begun no tunnel is added, and every spawned tunnel has
\* been sent the termination request of the shutdown path.
C19_NoSpawnAfterShutdown ==
    /\ [](processes # <<>> =>
            (pc = "done" /\ rlClosed /\ Len(processes) = Len(selectedConfigs)))
    /\ []((exitStatus \in Signals /\ ~isShuttingDown) => processes = <<>>)
    /\ []((handlers # {} \/ isShuttingDown) => pc = "done")
    /\ [](isShuttingDown =>
            \A c \in Children : processes[c].pid => GracefulRequests(c) # {})
    /\ [][isShuttingDown =>
            /\ Len(processes') = Len(processes)
            /\ \A c \in Children : processes'[c].pid = processes[c].pid]_vars

\* The script has ended through its exit timer after a shutdown that asked
\* both of its tunnels to end.
C19_Witness ==
    /\ isShuttingDown /\ exitStatus = "exit 0" /\ Len(processes) = 2
    /\ \A c \in Children : processes[c].pid /\ Cardinality(GracefulRequests(c)) = 1

\* The arguments the spawn loop builds from a configuration.
ArgsFor(cfg) ==
    << <<"port-forward">>, <<"--namespace">>, cfg.serviceNamespace,
       cfg.serviceName \o <<"-">> \o cfg.serviceId,
       cfg.localPort \o <<":">> \o cfg.servicePort >>

\* C20: once main() is through, there is exactly one tunnel for each
\* finalized configuration, started with that configuration's namespace,
\* pod name and ports; a service skipped at its environment prompt has no
\* configuration and no tunnel; and after the spawn the configurations,
\* the number of tunnels and their arguments stay as they are.
C20_ConfigConsumedOnce ==
    /\ []((pc = "done" /\ selectedConfigs # <<>>) =>
            /\ Len(processes) = Len(selectedConfigs)
            /\ \A i \in 1..Len(processes) :
                 /\ processes[i].cfg = i
                 /\ processes[i].args = ArgsFor(selectedConfigs[i])
                 /\ selectedConfigs[i].serviceNamespace # None)
    /\ [](processes # <<>> =>
            /\ Len(processes) <= Len(selectedServices)
            /\ \A i, j \in 1..Len(selectedConfigs) :
                 i # j => selectedConfigs[i].selectedService # selectedConfigs[j].selectedService
            /\ "Invalid environment selection." \in notices
                 => Len(processes) < Len(selectedServices)
            /\ "Invalid environment selection." \notin notices
                 => Len(processes) = Len(selectedServices))
    /\ [][processes # <<>> =>
            /\ selectedConfigs' = selectedConfigs
            /\ Len(processes') = Len(processes)
            /\ \A i \in 1..Len(processes) :
                 processes'[i].args = processes[i].args /\ processes'[i].cfg = processes[i].cfg]_vars

\* Of two services picked one was skipped at its environment prompt; the
\* tunnel of the other was started and has since ended.
C20_Witness ==
    /\ Len(selectedServices) = 2 /\ Len(processes) = 1 /\ Len(selectedConfigs) = 1
    /\ "Invalid environment selection." \in notices
    /\ processes[1].state = "closed"

\* The step that finalizes the configuration of the current service.
Finalizes == pc = "promptLogs" /\ Len(selectedConfigs') = Len(selectedConfigs) + 1

\* The step in which the port detection fails for the first time in the run.
DetectionFails ==
    /\ pc = "awaitServicePort"
    /\ "Error detecting port" \notin notices /\ "Error detecting port" \in notices'

\* C21: a configuration finalized after an invalid answer to the destination
\* port prompt has the detected/default port as its servicePort, never the
\* rejected answer; and a failed detection leaves 3000 as the default and
\* the run at the destination port prompt.
C21_InvalidDestinationPortReplaced ==
    [][/\ (Finalizes /\ cur.servicePortAnswer # <<>> /\ ~isValidPort(cur.servicePortAnswer))
          => /\ selectedConfigs'[Len(selectedConfigs')].servicePort = cur.servicePortDetected
             /\ selectedConfigs'[Len(selectedConfigs')].servicePort # cur.servicePortAnswer
       /\ DetectionFails
          => /\ cur'.servicePortDetected = <<"3", "0", "0", "0">>
             /\ pc' = "promptServicePort" /\ ~rlClosed' /\ exitStatus' = "none"]_vars

====
